---- MODULE Spec2Model ----
(***************************************************************************)
(* A model of the Elasticsearch DB-API cursor of es/mkelastic/api.py: the  *)
(* cursor's state (closed, description, _results), its execute() handler   *)
(* with the three pseudo-statements and the SQL path, and close(); of the  *)
(* connection that hands out cursors; and of get_columns of the SQLAlchemy *)
(* dialect of es/mkelastic/sqlalchemy.py.                                  *)
(*                                                                         *)
(* Strings whose letter case matters (statements, raw column types) are    *)
(* sequences of words; a word is its letters in lower case plus a flag     *)
(* saying whether it is written in upper case.  All other strings are      *)
(* plain TLA+ strings.  Python's None for description and _results is the  *)
(* empty sequence: every read of description in the code under model       *)
(* (`if self.description`) treats None and [] alike.                       *)
(***************************************************************************)
EXTENDS Integers, Sequences, FiniteSets, TLC

VARIABLES closed, description, results, last, connection, handed, reflected

vars == <<closed, description, results, last, connection, handed, reflected>>

(***************************************************************************)
(* Bounds                                                                  *)
(***************************************************************************)
\* The most rows a modelled SQL response carries.
MaxRows == 1

\* Cluster minor versions run from 10 - VersionSpread to 10 + VersionSpread.
VersionSpread == 1

\* The most documents the index statistics report for an index.
MaxDocs == 1

\* The cursors a connection hands out.
MaxCursors == 5

(***************************************************************************)
(* Words: case-carrying strings                                            *)
(***************************************************************************)
UC(w) == [w |-> w, up |-> TRUE]

LC(w) == [w |-> w, up |-> FALSE]

\* str.lower()
Lower(s) == [i \in DOMAIN s |-> LC(s[i].w)]

(***************************************************************************)
(* Python values held in rows and documents                                *)
(***************************************************************************)
PyNone == [kind |-> "none", s |-> "", elems |-> <<>>]

Scalar(s) == [kind |-> "scalar", s |-> s, elems |-> <<>>]

\* A list; its elements are ListScalar or ListDict values. madeBy tells the
\* objects of the parsed response from the objects the cursor creates, so that
\* a copy differs from the object it was copied from.
PyList(elems) == [kind |-> "list", s |-> "", elems |-> elems]

ListScalar(s) == [isDict |-> FALSE, s |-> s, keys |-> <<>>, madeBy |-> "response"]

\* A dict element, by the ordered sequence of its keys.
ListDict(keys) == [isDict |-> TRUE, s |-> "", keys |-> keys, madeBy |-> "response"]

\* The marker of a raised IndexError in a value position.
IndexErrorValue == [kind |-> "IndexError", s |-> "", elems |-> <<>>]

NoDescription == <<>>

NoResults == <<>>

(***************************************************************************)
(* Type codes and column descriptions                                      *)
(***************************************************************************)
\* "array" in column.get("type", "").lower()
IsArrayTypeMut(raw) == \E i \in DOMAIN raw : raw[i] = LC("array")

IsArrayType(raw) == \E i \in DOMAIN Lower(raw) : Lower(raw)[i] = LC("array")

\* ESType.from_es_type
from_es_type(es_type, is_array) == IF is_array THEN "ARRAY" ELSE "STRING"

CursorDescriptionRow(name, type_code) == [name |-> name, type_code |-> type_code]

get_description_from_columns_with_arrays(columns) ==
  [i \in DOMAIN columns |->
     CursorDescriptionRow(columns[i].name,
                          from_es_type(columns[i].type, IsArrayType(columns[i].type)))]

(***************************************************************************)
(* Row processing                                                          *)
(***************************************************************************)
\* dict(item)
DictCopy(item) ==
  [isDict |-> TRUE, s |-> item.s, keys |-> item.keys, madeBy |-> "cursor"]

_process_array_value(value) ==
  IF value.kind = "list"
  THEN IF Len(value.elems) > 0 /\ value.elems[1].isDict
       THEN PyList([i \in DOMAIN value.elems |-> DictCopy(value.elems[i])])
       ELSE value
  ELSE value

RECURSIVE ProcessRowFrom(_, _, _, _)
\* The loop of _process_row from position idx (1-based here, 0-based in the
\* code): a value is appended only under `self.description and idx < len(...)`.
ProcessRowFrom(desc, row, idx, processed) ==
  IF idx > Len(row) THEN processed
  ELSE IF desc # NoDescription /\ idx <= Len(desc)
       THEN ProcessRowFrom(desc, row, idx + 1,
              Append(processed,
                     IF desc[idx].type_code = "ARRAY"
                     THEN _process_array_value(row[idx])
                     ELSE row[idx]))
       ELSE ProcessRowFrom(desc, row, idx + 1, processed)

\* Cursor._process_row, reading the cursor's description at the time of the call.
_process_row(desc, row) == ProcessRowFrom(desc, row, 1, <<>>)

RECURSIVE ColumnIndexFrom(_, _, _)
ColumnIndexFrom(desc, name, idx) ==
  IF idx > Len(desc) THEN 0
  ELSE IF desc[idx].name = name THEN idx
  ELSE ColumnIndexFrom(desc, name, idx + 1)

\* Cursor._get_value_for_col_name: the value at the first column called name,
\* None when there is no such column, IndexError when the row is too short.
_get_value_for_col_name(desc, row, name) ==
  LET idx == ColumnIndexFrom(desc, name, 1)
  IN  IF idx = 0 THEN PyNone
      ELSE IF idx > Len(row) THEN IndexErrorValue
      ELSE row[idx]

(***************************************************************************)
(* Statements                                                              *)
(***************************************************************************)
ShowTables == <<UC("show"), UC("tables")>>

ShowValidTables == <<UC("show"), UC("valid_tables")>>

ShowValidViews == <<UC("show"), UC("valid_views")>>

ShowArrayColumnsFrom(table) == <<UC("show"), UC("array_columns"), UC("from"), LC(table)>>

SelectStatement == <<UC("select"), LC("x")>>

\* Cursor.custom_sql_to_method: the method a lower-case statement names.
custom_sql_to_method(key) ==
  IF key = <<LC("show"), LC("valid_tables")>> THEN "get_valid_table_names"
  ELSE IF key = <<LC("show"), LC("valid_views")>> THEN "get_valid_view_names"
  ELSE "None"

\* re.match("SHOW ARRAY_COLUMNS FROM (.*)", operation): the words are matched
\* as written, and the group needs the space after FROM.
re_table_name(operation) ==
  /\ Len(operation) >= 4
  /\ SubSeq(operation, 1, 3) = <<UC("show"), UC("array_columns"), UC("from")>>

re_table_name_group(operation) == SubSeq(operation, 4, Len(operation))

(***************************************************************************)
(* Calls in progress: the cursor's fields and what the call has done       *)
(***************************************************************************)
\* A request made to the cluster: the API and, for the SQL endpoint, the query.
Request(api, query) == [api |-> api, query |-> query]

NoFilter == "None"

StartCall(c, d, r) ==
  [closed |-> c, description |-> d, results |-> r,
   err |-> "none", reqs |-> <<>>, filter |-> NoFilter]

Raise(st, e) == [st EXCEPT !.err = e]

Requested(st, api, query) == [st EXCEPT !.reqs = Append(@, Request(api, query))]

\* baseapi.check_closed: the decorated method raises on a closed cursor.
check_closed(st) == st.closed

\* baseapi.apply_parameters with parameters = None.
apply_parameters(operation) == operation

\* baseapi.BaseCursor.elastic_query: the request to the SQL endpoint, with the
\* transport's errors translated.
elastic_query(st, query, env) ==
  LET st1 == Requested(st, "sql", query)
  IN  IF env.sql.err = "ConnectionError" THEN Raise(st1, "OperationalError")
      ELSE IF env.sql.err = "RequestError" THEN Raise(st1, "ProgrammingError")
      ELSE st1

\* `not columns`: the field is absent, or an empty list.
MissingColumnsMut(response) == FALSE

MissingColumns(response) == ~response.hasColumns \/ response.columns = <<>>

\* Cursor.execute, lines 212-223: the statement is real SQL.
ExecuteQuery(st, operation, env) ==
  LET query == apply_parameters(operation)
      st1 == elastic_query(st, query, env)
      response == env.sql.val
      rows == [i \in DOMAIN response.rows |-> _process_row(st.description, response.rows[i])]
  IN  IF st1.err # "none" THEN st1
      ELSE IF MissingColumns(response) THEN Raise(st1, "DataError")
      ELSE [st1 EXCEPT !.results = rows,
                       !.description = get_description_from_columns_with_arrays(response.columns)]

(***************************************************************************)
(* SHOW VALID_TABLES and SHOW VALID_VIEWS                                  *)
(***************************************************************************)
RECURSIVE execute(_, _, _)

RECURSIVE IsEmptyFrom(_, _, _)
\* The inner loop of get_valid_table_view_names over the index statistics:
\* is there an item for this index with int(item["docs.count"]) == 0.
IsEmptyFrom(response, name, i) ==
  IF i > Len(response) THEN FALSE
  ELSE IF Scalar(response[i].index) = name /\ response[i].docs_count = 0 THEN TRUE
  ELSE IsEmptyFrom(response, name, i + 1)

RECURSIVE FilterLoop(_, _, _, _)
\* The outer loop of get_valid_table_view_names: `for result in results`
\* takes the rows off the cursor one by one (the cursor is its own iterator).
FilterLoop(st, response, type_filter, acc) ==
  IF st.results = <<>> THEN [st EXCEPT !.results = acc]
  ELSE LET result == Head(st.results)
           st1 == [st EXCEPT !.results = Tail(@)]
           name == _get_value_for_col_name(st.description, result, "name")
           type == _get_value_for_col_name(st.description, result, "type")
       IN  IF Len(response) > 0 /\ name = IndexErrorValue THEN Raise(st1, "IndexError")
           ELSE IF IsEmptyFrom(response, name, 1)
                THEN FilterLoop(st1, response, type_filter, acc)
           ELSE IF type = IndexErrorValue THEN Raise(st1, "IndexError")
           ELSE IF type = Scalar(type_filter)
                THEN FilterLoop(st1, response, type_filter, Append(acc, result))
           ELSE FilterLoop(st1, response, type_filter, acc)

\* Cursor.get_valid_table_view_names
get_valid_table_view_names(st, type_filter, env) ==
  LET st0 == [st EXCEPT !.filter = type_filter]
      st1 == execute(st0, ShowTables, env)
      st2 == Requested(st1, "cat.indices", <<>>)
  IN  IF st1.err # "none" THEN st1
      ELSE IF env.stats.err # "none" THEN Raise(st2, env.stats.err)
      ELSE FilterLoop(st2, env.stats.val, type_filter, <<>>)

\* Digits of a number below 100, as its decimal string has them.
Digits(n) == IF n < 10 THEN <<n>> ELSE <<n \div 10, n % 10>>

RECURSIVE LexLess(_, _)
\* Order of two digit strings, each followed by "." (which sorts before digits).
LexLess(a, b) ==
  IF a = <<>> THEN b # <<>>
  ELSE IF b = <<>> THEN FALSE
  ELSE IF Head(a) # Head(b) THEN Head(a) < Head(b)
  ELSE LexLess(Tail(a), Tail(b))

\* The two version strings compared as strings.
VersionAtLeastMut(a, b) ==
  IF a[1] # b[1] THEN LexLess(Digits(b[1]), Digits(a[1]))
  ELSE IF a[2] # b[2] THEN LexLess(Digits(b[2]), Digits(a[2]))
  ELSE ~ LexLess(Digits(a[3]), Digits(b[3]))

\* version.parse(a) >= version.parse(b) on release versions <<major, minor, patch>>.
VersionAtLeast(a, b) ==
  IF a[1] # b[1] THEN a[1] > b[1]
  ELSE IF a[2] # b[2] THEN a[2] > b[2]
  ELSE a[3] >= b[3]

\* Cursor.get_valid_table_names
get_valid_table_names(st, env) ==
  LET st1 == Requested(st, "info", <<>>)
  IN  IF env.info.err # "none" THEN Raise(st1, env.info.err)
      ELSE IF VersionAtLeast(env.info.val, <<7, 10, 0>>)
           THEN get_valid_table_view_names(st1, "TABLE", env)
      ELSE get_valid_table_view_names(st1, "BASE TABLE", env)

\* Cursor.get_valid_view_names
get_valid_view_names(st, env) == get_valid_table_view_names(st, "VIEW", env)

\* baseapi.BaseCursor.custom_sql_to_method_dispatcher: the statement in lower
\* case is looked up among the custom statements.
custom_sql_to_method_dispatcher(command) == custom_sql_to_method(Lower(command))

(***************************************************************************)
(* SHOW ARRAY_COLUMNS FROM <table>                                         *)
(***************************************************************************)
\* source.get(field_name)
SourceGet(source, field_name) ==
  IF field_name \in DOMAIN source THEN source[field_name] ELSE PyNone

\* The rows for the keys of the first element, named by the field alone.
NestedColumnsMut(field_name, keys, array_type) ==
  [k \in DOMAIN keys |-> <<Scalar(field_name), Scalar(array_type)>>]

\* The rows for the keys of the first element of a list of objects.
NestedColumns(field_name, keys, array_type) ==
  [k \in DOMAIN keys |-> <<Scalar(field_name \o "." \o keys[k]), Scalar(array_type)>>]

\* isinstance(field_mapping.get("type"), str), with the check dropped.
IsPlainStringTypeMut(field_mapping) == TRUE

\* isinstance(field_mapping.get("type"), str)
IsPlainStringType(field_mapping) == field_mapping.hasStrType

RECURSIVE ArrayColumnsFrom(_, _, _, _)
\* The loop of get_array_type_columns over properties.items(); the result is
\* the rows, or <<IndexErrorValue>> when value[0] is read of an empty list.
ArrayColumnsFrom(properties, source, i, array_columns) ==
  IF i > Len(properties) THEN array_columns
  ELSE LET field_mapping == properties[i]
           value == SourceGet(source, field_mapping.name)
       IN  IF IsPlainStringType(field_mapping) /\ value.kind = "list"
           THEN IF value.elems = <<>> THEN <<IndexErrorValue>>
                ELSE IF value.elems[1].isDict
                THEN ArrayColumnsFrom(properties, source, i + 1,
                       array_columns \o NestedColumns(field_mapping.name,
                                                      value.elems[1].keys,
                                                      field_mapping.type))
                ELSE ArrayColumnsFrom(properties, source, i + 1,
                       Append(array_columns,
                              <<Scalar(field_mapping.name), Scalar(field_mapping.type)>>))
           ELSE ArrayColumnsFrom(properties, source, i + 1, array_columns)

ArrayColumnsDescription ==
  <<CursorDescriptionRow("name", "STRING"), CursorDescriptionRow("type", "STRING")>>

\* response["hits"]["total"]["value"] > 0, with the zero included.
HasDocumentsMut(response) == response.total >= 0

\* response["hits"]["total"]["value"] > 0
HasDocuments(response) == response.total > 0

\* self._results = array_columns, adding to the rows the cursor holds.
StoreArrayColumnsMut(st, array_columns) ==
  [st EXCEPT !.description = ArrayColumnsDescription,
             !.results = st.results \o array_columns]

\* Lines 260-264: the description and the rows the detection leaves.
StoreArrayColumns(st, array_columns) ==
  [st EXCEPT !.description = ArrayColumnsDescription,
             !.results = array_columns]

\* Cursor.get_array_type_columns
get_array_type_columns(st, table_name, env) ==
  LET st1 == Requested(st, "get_mapping", table_name)
      st2 == Requested(st1, "search", table_name)
      response == env.search.val
      array_columns ==
        IF HasDocuments(response)
        THEN IF response.hits = <<>> THEN <<IndexErrorValue>>
             ELSE ArrayColumnsFrom(env.mapping.val, response.hits[1], 1, <<>>)
        ELSE <<>>
  IN  IF env.mapping.err = "ConnectionError" THEN Raise(st1, "OperationalError")
      ELSE IF env.mapping.err = "NotFoundError" THEN Raise(st1, "ProgrammingError")
      ELSE IF env.search.err = "ConnectionError" THEN Raise(st2, "OperationalError")
      ELSE IF env.search.err = "NotFoundError" THEN Raise(st2, "ProgrammingError")
      ELSE IF array_columns = <<IndexErrorValue>> THEN Raise(st2, "IndexError")
      ELSE StoreArrayColumns(st2, array_columns)

(***************************************************************************)
(* Cursor.execute                                                          *)
(***************************************************************************)
\* Cursor.execute without its check_closed decorator.
executeMut(st, operation, env) ==
  LET method_name == custom_sql_to_method_dispatcher(operation)
  IN  IF method_name = "get_valid_table_names" THEN get_valid_table_names(st, env)
      ELSE IF method_name = "get_valid_view_names" THEN get_valid_view_names(st, env)
      ELSE IF re_table_name(operation)
           THEN get_array_type_columns(st, re_table_name_group(operation), env)
      ELSE ExecuteQuery(st, operation, env)

execute(st, operation, env) ==
  LET method_name == custom_sql_to_method_dispatcher(operation)
  IN  IF check_closed(st) THEN Raise(st, "Error")
      ELSE IF method_name = "get_valid_table_names" THEN get_valid_table_names(st, env)
      ELSE IF method_name = "get_valid_view_names" THEN get_valid_view_names(st, env)
      ELSE IF re_table_name(operation)
           THEN get_array_type_columns(st, re_table_name_group(operation), env)
      ELSE ExecuteQuery(st, operation, env)

(***************************************************************************)
(* What the cluster may answer                                             *)
(***************************************************************************)
SeqsUpTo(S, n) == UNION {[1..k -> S] : k \in 0..n}

Ok(val) == [err |-> "none", val |-> val]

Failed(err, val) == [err |-> err, val |-> val]

Column(name, type) == [name |-> name, type |-> type]

Response(hasColumns, columns, rows) ==
  [hasColumns |-> hasColumns, columns |-> columns, rows |-> rows]

NoResponse == Response(FALSE, <<>>, <<>>)

ColumnsA == <<Column("a", <<LC("long")>>)>>

ColumnsB == <<Column("b", <<LC("keyword")>>), Column("tags", <<UC("array")>>)>>

RowsA == {<<Scalar("1")>>, <<Scalar("2")>>}

ArrayValues ==
  {PyList(<<ListScalar("p"), ListScalar("q")>>),
   PyList(<<ListDict(<<"k1", "k2">>), ListDict(<<"k1", "k3">>)>>),
   Scalar("p")}

RowsB == {<<Scalar("x"), v>> : v \in ArrayValues}

ColumnsC == <<Column("c", <<LC("array"), LC("long")>>)>>

RowsC == {<<PyList(<<>>)>>}

\* Responses of the SQL endpoint to a query: rows aligned with the columns, a
\* response without a columns field, and one with an empty columns list.
QueryResponses ==
  {Response(TRUE, ColumnsA, rows) : rows \in SeqsUpTo(RowsA, MaxRows)}
  \cup {Response(TRUE, ColumnsB, rows) : rows \in SeqsUpTo(RowsB, MaxRows)}
  \cup {Response(TRUE, ColumnsC, rows) : rows \in SeqsUpTo(RowsC, MaxRows)}
  \cup {Response(FALSE, <<>>, rows) : rows \in SeqsUpTo(RowsA \cup RowsB, MaxRows)}
  \cup {Response(TRUE, <<>>, <<>>)}

SqlFailures == {Failed("ConnectionError", NoResponse), Failed("RequestError", NoResponse)}

QueryOutcomes == {Ok(r) : r \in QueryResponses} \cup SqlFailures

\* SHOW TABLES answers name, type, kind, and from 7.10 catalog first.
TableColumns(withCatalog) ==
  (IF withCatalog THEN <<Column("catalog", <<LC("keyword")>>)>> ELSE <<>>)
  \o <<Column("name", <<LC("keyword")>>), Column("type", <<LC("keyword")>>),
       Column("kind", <<LC("keyword")>>)>>

TableRow(withCatalog, name, type, kind) ==
  (IF withCatalog THEN <<Scalar("es")>> ELSE <<>>)
  \o <<Scalar(name), Scalar(type), Scalar(kind)>>

TableRows(withCatalog, label) ==
  <<TableRow(withCatalog, "orders", label, "INDEX"),
    TableRow(withCatalog, "empty_idx", label, "INDEX"),
    TableRow(withCatalog, "v", "VIEW", "ALIAS")>>

\* The inventory as a cluster from 7.10 answers it (catalog, "TABLE") and as
\* an earlier one does ("BASE TABLE"), and a response without columns.
TablesResponses ==
  {Response(TRUE, TableColumns(TRUE), TableRows(TRUE, "TABLE")),
   Response(TRUE, TableColumns(FALSE), TableRows(FALSE, "BASE TABLE")),
   Response(FALSE, <<>>, <<>>)}

TablesOutcomes ==
  {Ok(r) : r \in TablesResponses} \cup {Failed("ConnectionError", NoResponse)}

Versions == {<<7, m, 0>> : m \in (10 - VersionSpread)..(10 + VersionSpread)}

NoVersion == <<0, 0, 0>>

InfoOutcomes == {Ok(v) : v \in Versions} \cup {Failed("ConnectionError", NoVersion)}

IndexStat(index, docs_count) == [index |-> index, docs_count |-> docs_count]

\* cat.indices: the indices with their document counts (views are not indices).
StatsOutcomes ==
  {Ok(<<IndexStat("orders", d), IndexStat("empty_idx", 0)>>) : d \in 0..MaxDocs}
  \cup {Ok(<<>>), Failed("ConnectionError", <<>>)}

FieldMapping(name, hasStrType, type) ==
  [name |-> name, hasStrType |-> hasStrType, type |-> type]

\* mapping[table]["mappings"]["properties"], in its order; an object field
\* has sub-properties and no "type".
Properties ==
  <<FieldMapping("tags", TRUE, "keyword"), FieldMapping("items", TRUE, "nested"),
    FieldMapping("obj", FALSE, ""), FieldMapping("title", TRUE, "text")>>

MappingOutcomes ==
  {Ok(Properties), Failed("ConnectionError", <<>>), Failed("NotFoundError", <<>>)}

Absent == [kind |-> "absent", s |-> "", elems |-> <<>>]

\* A document's _source: the fields it holds, with their values.
Source(tags, items, obj) ==
  LET all == [f \in {"tags", "items", "obj", "title", "extra"} |->
                CASE f = "tags" -> tags
                  [] f = "items" -> items
                  [] f = "obj" -> obj
                  [] f = "title" -> Scalar("t")
                  [] OTHER -> PyList(<<ListScalar("e")>>)]
  IN  [f \in {g \in DOMAIN all : all[g] # Absent} |-> all[f]]

Sources ==
  {Source(tags, items, obj) :
     tags \in {Absent, Scalar("p"), PyList(<<ListScalar("p"), ListScalar("q")>>), PyList(<<>>)},
     items \in {Absent, PyList(<<ListDict(<<"k1", "k2">>), ListDict(<<"k1", "k3">>)>>)},
     obj \in {PyList(<<ListScalar("o")>>)}}

\* The answer to search(index, size=1): the total, and the _source of the hits.
Hits(total, hits) == [total |-> total, hits |-> hits]

NoHits == Hits(0, <<>>)

SearchOutcomes ==
  {Ok(Hits(1, <<s>>)) : s \in Sources}
  \cup {Ok(NoHits), Failed("ConnectionError", NoHits), Failed("NotFoundError", NoHits)}

Env(info, sql, stats, mapping, search) ==
  [info |-> info, sql |-> sql, stats |-> stats, mapping |-> mapping, search |-> search]

NoEnv == Env(Ok(NoVersion), Ok(NoResponse), Ok(<<>>), Ok(<<>>), Ok(NoHits))

\* No request follows a failed one: after a failure of info() the query and
\* the statistics are not asked for, after a failed or column-less SHOW TABLES
\* the statistics are not, after a failed get_mapping the sample is not.  An
\* answer that is not asked for is left as in NoEnv.
Consulted(env) ==
  /\ env.info.err # "none" => env.sql = NoEnv.sql
  /\ (env.info.err # "none" \/ env.sql.err # "none" \/ ~ env.sql.val.hasColumns) =>
       env.stats = NoEnv.stats
  /\ env.mapping.err # "none" => env.search = NoEnv.search

\* The answers of every collaborator the handling of a statement may ask.
AnswersFor(operation) ==
  LET method_name == custom_sql_to_method_dispatcher(operation)
  IN  IF method_name = "get_valid_table_names"
      THEN {Env(i, t, s, Ok(<<>>), Ok(NoHits)) :
              i \in InfoOutcomes, t \in TablesOutcomes, s \in StatsOutcomes}
      ELSE IF method_name = "get_valid_view_names"
      THEN {Env(Ok(NoVersion), t, s, Ok(<<>>), Ok(NoHits)) :
              t \in TablesOutcomes, s \in StatsOutcomes}
      ELSE IF re_table_name(operation)
      THEN {Env(Ok(NoVersion), Ok(NoResponse), Ok(<<>>), m, h) :
              m \in MappingOutcomes, h \in SearchOutcomes}
      ELSE {Env(Ok(NoVersion), q, Ok(<<>>), Ok(<<>>), Ok(NoHits)) : q \in QueryOutcomes}

\* The answers a statement can meet, by the collaborators its handling asks.
EnvFor(operation) == {env \in AnswersFor(operation) : Consulted(env)}

Statements ==
  {SelectStatement,
   ShowValidTables, Lower(ShowValidTables),
   ShowValidViews, Lower(ShowValidViews),
   ShowArrayColumnsFrom("orders"), Lower(ShowArrayColumnsFrom("orders"))}

(***************************************************************************)
(* The cursor                                                              *)
(***************************************************************************)
Asked(reqs, api) == \E i \in DOMAIN reqs : reqs[i].api = api

\* The answers the call received: those of the requests it made.
Received(env, reqs) ==
  Env(IF Asked(reqs, "info") THEN env.info ELSE NoEnv.info,
      IF Asked(reqs, "sql") THEN env.sql ELSE NoEnv.sql,
      IF Asked(reqs, "cat.indices") THEN env.stats ELSE NoEnv.stats,
      IF Asked(reqs, "get_mapping") THEN env.mapping ELSE NoEnv.mapping,
      IF Asked(reqs, "search") THEN env.search ELSE NoEnv.search)

\* The record of a call: the statement, the answers it received, and how it ended.
LastCall(kind, operation, env, st) ==
  [kind |-> kind, operation |-> operation, env |-> Received(env, st.reqs),
   err |-> st.err, reqs |-> st.reqs, filter |-> st.filter]

Init ==
  /\ closed = FALSE
  /\ description = NoDescription
  /\ results = NoResults
  /\ last = LastCall("init", <<>>, NoEnv, StartCall(FALSE, NoDescription, NoResults))
  /\ connection = [closed |-> FALSE, cursors |-> <<>>]
  /\ handed = <<>>
  /\ reflected = <<>>

\* cursor.execute(operation): the fields are what the call left in them,
\* whether it returned or raised.
ExecuteCall ==
  \E operation \in Statements :
    \E env \in EnvFor(operation) :
      \E st \in {execute(StartCall(closed, description, results), operation, env)} :
          /\ description' = st.description
          /\ results' = st.results
          /\ closed' = st.closed
          /\ last' = LastCall("execute", operation, env, st)
          /\ UNCHANGED <<connection, handed, reflected>>

\* baseapi.BaseCursor.close, decorated with check_closed.
close(st) == IF check_closed(st) THEN Raise(st, "Error") ELSE [st EXCEPT !.closed = TRUE]

CloseCall ==
  LET st == close(StartCall(closed, description, results))
  IN  /\ closed' = st.closed
      /\ UNCHANGED <<description, results>>
      /\ last' = LastCall("close", <<>>, NoEnv, st)
      /\ UNCHANGED <<connection, handed, reflected>>

Next == ExecuteCall \/ CloseCall

Spec == Init /\ [][Next]_vars

\* cursor.execute("SHOW ARRAY_COLUMNS FROM <table>") called once more, with the
\* table and the answers of the call before.
ExecuteAgain ==
  /\ last.kind \in {"execute", "again"}
  /\ re_table_name(last.operation)
  /\ \E st \in {execute(StartCall(closed, description, results), last.operation, last.env)} :
       /\ description' = st.description
       /\ results' = st.results
       /\ closed' = st.closed
       /\ last' = LastCall("again", last.operation, last.env, st)
       /\ UNCHANGED <<connection, handed, reflected>>

NextAgain == ExecuteCall \/ CloseCall \/ ExecuteAgain

\* The cursor with the detection of array columns repeated.
SpecAgain == Init /\ [][NextAgain]_vars

\* The methods of the cursor behind the pseudo-statements are public: a
\* caller can reach them without execute.
DirectMethods == {"get_valid_table_names", "get_valid_view_names", "get_array_type_columns"}

DirectEnvFor(method_name) ==
  IF method_name = "get_array_type_columns"
  THEN EnvFor(ShowArrayColumnsFrom("orders"))
  ELSE IF method_name = "get_valid_table_names" THEN EnvFor(ShowValidTables)
  ELSE EnvFor(ShowValidViews)

direct(st, method_name, env) ==
  IF method_name = "get_array_type_columns"
  THEN get_array_type_columns(st, <<LC("orders")>>, env)
  ELSE IF method_name = "get_valid_table_names" THEN get_valid_table_names(st, env)
  ELSE get_valid_view_names(st, env)

\* cursor.get_valid_table_names(), cursor.get_valid_view_names(),
\* cursor.get_array_type_columns("orders")
DirectCall ==
  \E method_name \in DirectMethods :
    \E env \in DirectEnvFor(method_name) :
      \E st \in {direct(StartCall(closed, description, results), method_name, env)} :
          /\ description' = st.description
          /\ results' = st.results
          /\ closed' = st.closed
          /\ last' = LastCall("direct", <<LC(method_name)>>, env, st)
          /\ UNCHANGED <<connection, handed, reflected>>

NextCalls == ExecuteCall \/ CloseCall \/ ExecuteAgain \/ DirectCall

\* The cursor with every way of calling it.
SpecCalls == Init /\ [][NextCalls]_vars

(***************************************************************************)
(* The connection and the cursors it hands out.  connection.cursors is the *)
(* list Connection keeps; handed[id] is the closed flag of the id-th       *)
(* cursor returned by cursor(), the only field Connection.close touches.   *)
(***************************************************************************)
\* Connection.cursor without the registration of the new cursor.
cursorMut(conn, made) ==
  IF conn.closed THEN [err |-> "Error", connection |-> conn, handed |-> made]
  ELSE [err |-> "none", connection |-> conn, handed |-> Append(made, FALSE)]

\* Connection.cursor, decorated with check_closed; self.es is set by
\* __init__, so the UnexpectedESInitError of line 76 is not raised.
cursor(conn, made) ==
  IF conn.closed THEN [err |-> "Error", connection |-> conn, handed |-> made]
  ELSE [err |-> "none",
        connection |-> [conn EXCEPT !.cursors = Append(@, Len(made) + 1)],
        handed |-> Append(made, FALSE)]

\* baseapi.BaseConnection.close, decorated with check_closed: the connection
\* is closed and so is every cursor of its list that is still open.
connection_close(conn, made) ==
  IF conn.closed THEN [err |-> "Error", connection |-> conn, handed |-> made]
  ELSE [err |-> "none",
        connection |-> [conn EXCEPT !.closed = TRUE],
        handed |-> [id \in DOMAIN made |->
                      made[id] \/ \E i \in DOMAIN conn.cursors : conn.cursors[i] = id]]

\* The record of a call of the connection or of one of its cursors.
ConnectionLastCall(kind, err) ==
  LastCall(kind, <<>>, NoEnv, Raise(StartCall(FALSE, NoDescription, NoResults), err))

\* connection.cursor(): an open connection hands out MaxCursors cursors at
\* most, a closed one is asked whatever it has handed out.
ConnectionCursorCall ==
  /\ Len(handed) < MaxCursors \/ connection.closed
  /\ LET out == cursor(connection, handed)
     IN  /\ connection' = out.connection
         /\ handed' = out.handed
         /\ last' = ConnectionLastCall("cursor", out.err)
  /\ UNCHANGED <<closed, description, results, reflected>>

\* connection.close()
ConnectionCloseCall ==
  /\ LET out == connection_close(connection, handed)
     IN  /\ connection' = out.connection
         /\ handed' = out.handed
         /\ last' = ConnectionLastCall("connection.close", out.err)
  /\ UNCHANGED <<closed, description, results, reflected>>

\* close() of a cursor the connection handed out.
HandedCloseCall ==
  \E id \in DOMAIN handed :
    LET st == close(StartCall(handed[id], NoDescription, NoResults))
    IN  /\ handed' = [handed EXCEPT ![id] = st.closed]
        /\ last' = ConnectionLastCall("cursor.close", st.err)
        /\ UNCHANGED <<closed, description, results, connection, reflected>>

NextConnection == ConnectionCursorCall \/ ConnectionCloseCall \/ HandedCloseCall

SpecConnection == Init /\ [][NextConnection]_vars

(***************************************************************************)
(* The SQLAlchemy dialect: get_columns                                     *)
(***************************************************************************)
ShowColumnsFrom(table) == <<UC("show"), UC("columns"), UC("from"), LC(table)>>

\* basesqlalchemy.BaseESDialect._not_supported_column_types
_not_supported_column_types == {"object", "nested"}

\* basesqlalchemy.get_type: the SQLAlchemy type of a mapping type, String for
\* the types it does not know.
get_type(data_type) ==
  CASE data_type \in {"text", "keyword"} -> "String"
    [] data_type = "long" -> "BigInteger"
    [] OTHER -> "String"

\* ESArray(item_type), and a type that is no array.
ESArray(item_type) == [container |-> "ESArray", of |-> item_type]

PlainType(type) == [container |-> "none", of |-> type]

\* connection.execute(statement) of SQLAlchemy: the statement runs on a cursor
\* the connection creates for it.
connection_execute(operation, env) ==
  execute(StartCall(FALSE, NoDescription, NoResults), operation, env)

\* row.<name> of a result row: the value at the position the description
\* gives the name, IndexError when the row stops before it.
RowAttribute(desc, row, name) ==
  LET idx == ColumnIndexFrom(desc, name, 1)
  IN  IF idx = 0 \/ idx > Len(row) THEN IndexErrorValue ELSE row[idx]

\* hasattr(row, name)
HasAttribute(desc, name) == ColumnIndexFrom(desc, name, 1) # 0

\* array_columns and array_types of get_columns, lines 94-104: the type of
\* each name of the SHOW ARRAY_COLUMNS rows, "" where the rows have no type.
ArrayTypes(desc, rows) ==
  [n \in {RowAttribute(desc, rows[i], "name").s : i \in DOMAIN rows} |->
     LET i == CHOOSE k \in DOMAIN rows :
                /\ RowAttribute(desc, rows[k], "name").s = n
                /\ \A l \in DOMAIN rows :
                     RowAttribute(desc, rows[l], "name").s = n => l <= k
     IN  IF HasAttribute(desc, "type") THEN RowAttribute(desc, rows[i], "type").s ELSE ""]

ColumnInfo(name, type) ==
  [name |-> name, nullable |-> TRUE, default |-> "None", type |-> type]

RECURSIVE ColumnsFrom(_, _, _, _, _)
\* The loop of get_columns, lines 107-128, from row i.
ColumnsFrom(desc, rows, i, array_types, columns) ==
  IF i > Len(rows) THEN [err |-> "none", columns |-> columns]
  ELSE LET mapping == RowAttribute(desc, rows[i], "mapping")
           column == RowAttribute(desc, rows[i], "column")
       IN  IF mapping = IndexErrorValue \/ column = IndexErrorValue
           THEN [err |-> "IndexError", columns |-> <<>>]
           ELSE IF mapping.s \in _not_supported_column_types
           THEN ColumnsFrom(desc, rows, i + 1, array_types, columns)
           ELSE ColumnsFrom(desc, rows, i + 1, array_types,
                  Append(columns,
                    ColumnInfo(column.s,
                      IF column.s \in DOMAIN array_types
                      THEN ESArray(IF array_types[column.s] # ""
                                   THEN get_type(array_types[column.s])
                                   ELSE "String")
                      ELSE PlainType(get_type(mapping.s)))))

\* ESDialect.get_columns: what it returns or raises, and the requests made.
get_columns(table_name, env) ==
  LET all_columns == connection_execute(ShowColumnsFrom(table_name), env)
      array_columns_result == connection_execute(ShowArrayColumnsFrom(table_name), env)
      reqs == all_columns.reqs \o array_columns_result.reqs
  IN  IF all_columns.err # "none"
      THEN [err |-> all_columns.err, columns |-> <<>>, reqs |-> all_columns.reqs]
      ELSE IF array_columns_result.err # "none"
      THEN [err |-> array_columns_result.err, columns |-> <<>>, reqs |-> reqs]
      ELSE LET out == ColumnsFrom(all_columns.description, all_columns.results, 1,
                                  ArrayTypes(array_columns_result.description,
                                             array_columns_result.results),
                                  <<>>)
           IN  [err |-> out.err, columns |-> out.columns, reqs |-> reqs]

\* SHOW COLUMNS answers column, type, mapping.
ShowColumnsColumns ==
  <<Column("column", <<LC("keyword")>>), Column("type", <<LC("keyword")>>),
    Column("mapping", <<LC("keyword")>>)>>

ColumnRow(column, type, mapping) == <<Scalar(column), Scalar(type), Scalar(mapping)>>

\* The SHOW COLUMNS rows of the index of Properties, with a number column.
TableColumnRows ==
  <<ColumnRow("tags", "VARCHAR", "keyword"), ColumnRow("items", "STRUCT", "nested"),
    ColumnRow("items.k1", "VARCHAR", "keyword"), ColumnRow("obj", "STRUCT", "object"),
    ColumnRow("title", "VARCHAR", "text"), ColumnRow("n", "BIGINT", "long")>>

ShowColumnsOutcomes ==
  {Ok(Response(TRUE, ShowColumnsColumns, SubSeq(TableColumnRows, 1, k))) :
     k \in 0..Len(TableColumnRows)}
  \cup SqlFailures

DialectEnvs ==
  {Env(Ok(NoVersion), q, Ok(<<>>), m, h) :
     q \in ShowColumnsOutcomes, m \in MappingOutcomes, h \in SearchOutcomes}

TableNames == {"orders", "logs"}

\* dialect.get_columns(connection, table_name)
GetColumnsCall ==
  \E table_name \in TableNames, env \in DialectEnvs :
    \E out \in {get_columns(table_name, env)} :
      /\ reflected' = out.columns
      /\ last' = [kind |-> "get_columns", operation |-> <<LC(table_name)>>,
                  env |-> Received(env, out.reqs), err |-> out.err,
                  reqs |-> out.reqs, filter |-> NoFilter]
      /\ UNCHANGED <<closed, description, results, connection, handed>>

SpecDialect == Init /\ [][GetColumnsCall]_vars

(***************************************************************************)
(* Properties                                                              *)
(***************************************************************************)
Range(f) == {f[i] : i \in DOMAIN f}

ExecuteReturned == last.kind = "execute" /\ last.err = "none"

\* The statement took the SQL path of execute (lines 212-223).
IsQuery(operation) ==
  /\ custom_sql_to_method_dispatcher(operation) = "None"
  /\ ~ re_table_name(operation)

\* Some request of the call was answered with a failure.
CollaboratorFailed(call) ==
  \/ call.env.info.err # "none"
  \/ call.env.sql.err # "none"
  \/ call.env.stats.err # "none"
  \/ call.env.mapping.err # "none"
  \/ call.env.search.err # "none"

\* C1: after a successful execute, every row of the cursor has exactly as many
\* values as the description has columns.
C1_RowLengthIsDescriptionLength ==
  ExecuteReturned => \A i \in DOMAIN results : Len(results[i]) = Len(description)

\* C2: after execute has processed the response of a real SQL statement, the
\* cursor holds one row per response row, and every value of a column that the
\* response does not type as an array is at its position, unchanged.
C2_NonArrayValuesUnchanged ==
  (ExecuteReturned /\ IsQuery(last.operation)) =>
    LET response == last.env.sql.val
    IN  /\ Len(results) = Len(response.rows)
        /\ \A i \in DOMAIN response.rows :
             \A j \in DOMAIN response.columns :
               ~ IsArrayType(response.columns[j].type) =>
                 /\ j <= Len(results[i])
                 /\ results[i][j] = response.rows[i][j]

\* C3: an execute on a closed cursor, whatever the statement, raises the
\* closed-cursor error, makes no request, and leaves description and rows as
\* they were.
C3_ExecuteAfterCloseFails ==
  [][(closed /\ last'.kind = "execute") =>
       /\ last'.err = "Error"
       /\ last'.reqs = <<>>
       /\ description' = description
       /\ results' = results]_vars

C3_Witness ==
  /\ closed
  /\ last.kind = "execute"
  /\ last.operation = ShowValidTables
  /\ last.err = "Error"
  /\ description # NoDescription
  /\ results # NoResults

\* C4: an execute that fails because a request to the cluster failed leaves
\* description and rows as they were before the call.
C4_FailedExecuteLeavesState ==
  [][(last'.kind = "execute" /\ last'.err # "none" /\ CollaboratorFailed(last')) =>
       /\ description' = description
       /\ results' = results]_vars

ListedTablesOrViews(call) ==
  /\ call.kind = "execute"
  /\ call.err # "Error"
  /\ custom_sql_to_method_dispatcher(call.operation)
       \in {"get_valid_table_names", "get_valid_view_names"}

\* The rows of a SHOW TABLES response of the given type whose index the
\* statistics do not report with zero documents.
NonEmptyOfType(response, stats, label) ==
  LET name(row) == row[ColumnIndexFrom(response.columns, "name", 1)]
      type(row) == row[ColumnIndexFrom(response.columns, "type", 1)]
      Keep(row) ==
        /\ type(row) = Scalar(label)
        /\ ~ \E i \in DOMAIN stats :
               Scalar(stats[i].index) = name(row) /\ stats[i].docs_count = 0
  IN  SelectSeq(response.rows, Keep)

\* C6: SHOW VALID_TABLES or SHOW VALID_VIEWS on an open cursor, answered by the
\* cluster, succeeds and yields exactly the SHOW TABLES rows of the requested
\* type whose index is not reported with zero documents.
C6_ValidTablesListsNonEmptyTables ==
  (/\ ListedTablesOrViews(last)
   /\ ~ CollaboratorFailed(last)
   /\ Asked(last.reqs, "sql")
   /\ ~ MissingColumns(last.env.sql.val)) =>
     /\ last.err = "none"
     /\ results = NonEmptyOfType(last.env.sql.val, last.env.stats.val, last.filter)

\* The statement is one of the three pseudo-statements in some letter case.
IsPseudoStatementAnyCase(operation) ==
  \/ Lower(operation) \in {Lower(ShowValidTables), Lower(ShowValidViews)}
  \/ /\ Len(operation) >= 4
     /\ SubSeq(Lower(operation), 1, 3) = SubSeq(Lower(ShowArrayColumnsFrom("t")), 1, 3)

\* C7: a pseudo-statement in any letter case is never sent to the SQL endpoint.
C7_PseudoStatementsAnyCase ==
  (last.kind = "execute" /\ IsPseudoStatementAnyCase(last.operation)) =>
    \A i \in DOMAIN last.reqs :
      ~ (last.reqs[i].api = "sql" /\ last.reqs[i].query = last.operation)

\* The label of tables for a release version <<major, minor, patch>>.
TableLabelOf(v) ==
  IF v[1] * 10000 + v[2] * 100 + v[3] >= 71000 THEN "TABLE" ELSE "BASE TABLE"

\* C8: every execute of SHOW VALID_TABLES on an open cursor first asks the
\* cluster its version, and filters by the label of the version it was told in
\* that call: "TABLE" from 7.10.0, "BASE TABLE" below; the rows it returns all
\* have that type.
C8_VersionFetchedAndCompared ==
  (/\ last.kind = "execute"
   /\ last.err # "Error"
   /\ custom_sql_to_method_dispatcher(last.operation) = "get_valid_table_names") =>
     /\ last.reqs # <<>>
     /\ last.reqs[1].api = "info"
     /\ last.env.info.err = "none" =>
          /\ last.filter = TableLabelOf(last.env.info.val)
          /\ last.err = "none" =>
               \A i \in DOMAIN results :
                 _get_value_for_col_name(description, results[i], "type")
                   = Scalar(TableLabelOf(last.env.info.val))

C8_Witness ==
  /\ last.kind = "execute"
  /\ last.operation = ShowValidTables
  /\ last.err = "none"
  /\ last.env.info.val = <<7, 9, 0>>
  /\ last.filter = "BASE TABLE"
  /\ results # <<>>

\* The call was an execute of SHOW ARRAY_COLUMNS FROM that returned.
DetectedArrayColumns(call) ==
  /\ call.kind = "execute"
  /\ call.err = "none"
  /\ re_table_name(call.operation)

FieldNames == {"tags", "items", "obj", "title", "extra"}

\* The declared type of a field whose mapping type is a plain string.
DeclaredAs(properties, field, type) ==
  \E i \in DOMAIN properties :
    /\ properties[i].name = field
    /\ properties[i].hasStrType
    /\ properties[i].type = type

\* The document holds a sequence of scalars for the field.
HoldsScalarSequence(source, field) ==
  /\ field \in DOMAIN source
  /\ source[field].kind = "list"
  /\ source[field].elems # <<>>
  /\ ~ source[field].elems[1].isDict

\* C9: for an index with a document, SHOW ARRAY_COLUMNS FROM reports a row
\* (field, type) for a top-level field exactly when the mapping declares the
\* field with the plain string type `type` and the sampled document holds a
\* sequence of scalars for it; a field absent from the document is not reported.
C9_ScalarArrayColumnsReported ==
  (DetectedArrayColumns(last) /\ last.env.search.val.total > 0) =>
    LET properties == last.env.mapping.val
        source == last.env.search.val.hits[1]
        types == {properties[i].type : i \in DOMAIN properties}
    IN  /\ \A field \in FieldNames :
             \A type \in types :
               <<Scalar(field), Scalar(type)>> \in Range(results)
                 <=> (DeclaredAs(properties, field, type)
                        /\ HoldsScalarSequence(source, field))
        /\ \A field \in FieldNames \ DOMAIN source :
             \A i \in DOMAIN results : results[i][1] # Scalar(field)

C9_Witness ==
  /\ DetectedArrayColumns(last)
  /\ last.env.search.val.total > 0
  /\ <<Scalar("tags"), Scalar("keyword")>> \in Range(results)
  /\ "obj" \in DOMAIN last.env.search.val.hits[1]
  /\ "items" \notin DOMAIN last.env.search.val.hits[1]

\* C10: SHOW ARRAY_COLUMNS FROM an existing index without documents returns no
\* rows under the description (name, type), whatever the mapping declares.
C10_NoDocumentsNoArrayColumns ==
  (/\ last.kind = "execute"
   /\ re_table_name(last.operation)
   /\ Asked(last.reqs, "search")
   /\ last.env.mapping.err = "none"
   /\ last.env.search.err = "none"
   /\ last.env.search.val.total = 0) =>
     /\ last.err = "none"
     /\ results = <<>>
     /\ description = ArrayColumnsDescription

C10_Witness ==
  /\ last.kind = "execute"
  /\ last.operation = ShowArrayColumnsFrom("orders")
  /\ last.env.mapping = Ok(Properties)
  /\ last.env.search = Ok(NoHits)
  /\ last.err = "none"
  /\ results = <<>>
  /\ description = ArrayColumnsDescription

\* The call was an execute of SHOW ARRAY_COLUMNS FROM on an open cursor to
\* which the cluster answered the mapping and the sample.
AnsweredArrayColumns(call) ==
  /\ call.kind = "execute"
  /\ re_table_name(call.operation)
  /\ Asked(call.reqs, "search")
  /\ call.env.mapping.err = "none"
  /\ call.env.search.err = "none"

\* C11: SHOW ARRAY_COLUMNS FROM fails only with ProgrammingError or
\* OperationalError, and returns a result whenever the cluster answers the
\* mapping and the sample of the index, whatever they hold.
C11_ArrayColumnsOnlyFailsOnClusterErrors ==
  (last.kind = "execute" /\ re_table_name(last.operation) /\ last.err # "Error") =>
    /\ last.err \in {"none", "ProgrammingError", "OperationalError"}
    /\ AnsweredArrayColumns(last) => last.err = "none"

\* The raw type has the word "array" in some letter case.
NamesArray(raw) == \E i \in DOMAIN raw : raw[i].w = "array"

\* C12: a column description built by execute has type_code ARRAY exactly when
\* the raw type of the column in the response has "array" in it, in any letter
\* case and whatever else the raw type holds.
C12_ArrayTypeCodeFromRawType ==
  (ExecuteReturned /\ IsQuery(last.operation)) =>
    LET columns == last.env.sql.val.columns
    IN  /\ Len(description) = Len(columns)
        /\ \A j \in DOMAIN columns :
             description[j].type_code = "ARRAY" <=> NamesArray(columns[j].type)

C12_Witness ==
  /\ ExecuteReturned
  /\ last.env.sql.val.columns = ColumnsB
  /\ description[1].type_code # "ARRAY"
  /\ description[2].type_code = "ARRAY"

\* The semantic type the type table gives a raw type name.
SemanticTypeOf(raw) ==
  CASE raw = <<LC("long")>> -> "LONG"
    [] raw = <<LC("double")>> -> "DOUBLE"
    [] raw = <<LC("boolean")>> -> "BOOLEAN"
    [] raw = <<LC("date")>> -> "DATE"
    [] OTHER -> "STRING"

\* C13: the description of a non-array column has the semantic type of its raw
\* type name: LONG for long, DOUBLE for double, BOOLEAN for boolean, DATE for
\* date, and STRING only for the names outside the table.
C13_TypeTableMapsRawTypes ==
  (ExecuteReturned /\ IsQuery(last.operation)) =>
    LET columns == last.env.sql.val.columns
    IN  \A j \in DOMAIN columns :
          ~ NamesArray(columns[j].type) =>
            description[j].type_code = SemanticTypeOf(columns[j].type)

\* How many rows of the cursor are this row.
Occurrences(row) == Cardinality({i \in DOMAIN results : results[i] = row})

\* C20: for a field declared with a plain string type whose sampled value is a
\* sequence of objects, SHOW ARRAY_COLUMNS FROM has exactly one row
\* (field.key, declared type) per key of the first object, no row named by the
\* field alone, and no row for a key that only later objects have.
C20_NestedColumnsFromFirstElement ==
  (DetectedArrayColumns(last) /\ last.env.search.val.total > 0) =>
    LET properties == last.env.mapping.val
        source == last.env.search.val.hits[1]
    IN  \A p \in DOMAIN properties :
          LET field == properties[p].name
              elems == source[field].elems
          IN  (/\ properties[p].hasStrType
               /\ field \in DOMAIN source
               /\ source[field].kind = "list"
               /\ elems # <<>>
               /\ elems[1].isDict) =>
                /\ \A k \in DOMAIN elems[1].keys :
                     Occurrences(<<Scalar(field \o "." \o elems[1].keys[k]),
                                   Scalar(properties[p].type)>>) = 1
                /\ \A i \in DOMAIN results : results[i][1] # Scalar(field)
                /\ \A e \in DOMAIN elems :
                     \A k \in DOMAIN elems[e].keys :
                       elems[e].keys[k] \notin Range(elems[1].keys) =>
                         \A i \in DOMAIN results :
                           results[i][1] # Scalar(field \o "." \o elems[e].keys[k])

C20_Witness ==
  /\ DetectedArrayColumns(last)
  /\ <<Scalar("items.k1"), Scalar("nested")>> \in Range(results)
  /\ <<Scalar("items.k2"), Scalar("nested")>> \in Range(results)
  /\ <<Scalar("tags"), Scalar("keyword")>> \in Range(results)

\* What a freshly created cursor is left with by the same statement and answers.
OnFreshCursor(call) ==
  execute(StartCall(FALSE, NoDescription, NoResults), call.operation, call.env)

\* C18: after a successful execute the description and the rows are the output
\* of that call alone: the same as a cursor with any other history, a fresh one
\* included, holds after the same statement and answers.
C18_ExecuteReplacesWhateverTheHistory ==
  ExecuteReturned =>
    /\ OnFreshCursor(last).err = "none"
    /\ description = OnFreshCursor(last).description
    /\ results = OnFreshCursor(last).results

\* The value is a sequence of objects.
IsObjectSequence(value) ==
  /\ value.kind = "list"
  /\ value.elems # <<>>
  /\ \A e \in DOMAIN value.elems : value.elems[e].isDict

\* The stored value is a new sequence of copies of the elements of the value:
\* as long, each element with the same keys, none the response's own object.
IsIndependentCopy(stored, value) ==
  /\ stored.kind = "list"
  /\ Len(stored.elems) = Len(value.elems)
  /\ \A e \in DOMAIN value.elems :
       /\ stored.elems[e].isDict
       /\ stored.elems[e].keys = value.elems[e].keys
       /\ stored.elems[e].madeBy = "cursor"

\* C15: for every array column of a SQL response whose value in a row is a
\* sequence of objects, the cursor's row holds at that position a new sequence
\* of independent copies of the objects.
C15_ObjectArraysAreCopied ==
  (ExecuteReturned /\ IsQuery(last.operation)) =>
    LET response == last.env.sql.val
    IN  /\ Len(results) = Len(response.rows)
        /\ \A i \in DOMAIN response.rows :
             \A j \in DOMAIN response.columns :
               (/\ NamesArray(response.columns[j].type)
                /\ IsObjectSequence(response.rows[i][j])) =>
                  /\ j \in DOMAIN results[i]
                  /\ IsIndependentCopy(results[i][j], response.rows[i][j])

\* get_columns was called and both of its statements were answered with a
\* result.
ColumnsAnswered ==
  /\ last.kind = "get_columns"
  /\ last.env.sql.err = "none"
  /\ Asked(last.reqs, "get_mapping")
  /\ connection_execute(ShowArrayColumnsFrom(last.operation[1].w), last.env).err = "none"

\* The SHOW COLUMNS rows of the answer whose mapping type is supported.
SupportedRows ==
  SelectSeq(last.env.sql.val.rows, LAMBDA r : r[3].s \notin _not_supported_column_types)

\* The rows of SHOW ARRAY_COLUMNS FROM for the answers of the call.
ArrayRows ==
  connection_execute(ShowArrayColumnsFrom(last.operation[1].w), last.env).results

C17_ArrayColumnsIdempotent ==
  [][(/\ last'.kind = "again"
      /\ re_table_name(last.operation)
      /\ ~ closed
      /\ last.err = "none") =>
       /\ last'.err = "none"
       /\ results' = results
       /\ description' = description
       /\ results' = OnFreshCursor(last').results
       /\ description' = OnFreshCursor(last').description]_vars

C17_Witness ==
  /\ last.kind = "again"
  /\ re_table_name(last.operation)
  /\ last.err = "none"
  /\ <<Scalar("tags"), Scalar("keyword")>> \in Range(results)
  /\ Len(results) > 1

\* C19: from a closed cursor no call, execute or a direct call of
\* get_array_type_columns, get_valid_table_names or get_valid_view_names,
\* changes the description or the rows or reaches the cluster: each fails with
\* the closed-resource error.
C19_ClosedCursorRefusesEveryCall ==
  [][(closed /\ last'.kind \in {"execute", "again", "direct"}) =>
       /\ last'.err = "Error"
       /\ last'.reqs = <<>>
       /\ description' = description
       /\ results' = results]_vars

\* C14: every cursor that cursor() returned is in the connection's list of
\* cursors; once the connection is closed every cursor it returned is closed,
\* and cursor() fails without creating a cursor.
C14_ConnectionOwnsItsCursors ==
  /\ [](\A id \in DOMAIN handed : id \in Range(connection.cursors))
  /\ [](connection.closed => \A id \in DOMAIN handed : handed[id])
  /\ [][connection.closed =>
          /\ handed' = handed
          /\ last'.kind = "cursor" => last'.err = "Error"]_vars

C14_Witness ==
  /\ connection.closed
  /\ Len(handed) > 1
  /\ last.kind = "cursor"
  /\ last.err = "Error"

====
